---- MODULE Spec2Model ----
(***************************************************************************)
(* Model of targets/jellyfin/jellyfin.go: the Jellyfin target of autoscan. *)
(*                                                                         *)
(* Go strings are modelled as sequences of one-character strings, so that  *)
(* strings.HasPrefix and strings.TrimSpace are computed, not assumed.      *)
(* A Go error is a string, "nil" standing for the nil error.  A pointer    *)
(* that may be nil is a sequence of length 0 (nil) or 1 (the pointee).     *)
(***************************************************************************)
EXTENDS Integers, Sequences, FiniteSets, TLC

(* ------------------------------ bounds --------------------------------- *)

\* Longest event folder (scan.Folder) that is dispatched.
MaxLen == 2

\* Largest number of libraries api.Libraries() returns at construction.
MaxLibs == 2

\* Number of callers (goroutines of the surrounding processor) that invoke
\* the target's methods.
NumProcs == 2

Procs == 1..NumProcs

\* Largest number of changes the server's libraries undergo after the target
\* was built.
MaxChanges == 1

(* ------------------------------ values --------------------------------- *)

PathChars == {"a", "b"}

\* All strings over PathChars of length at most n.
Strs(n) == UNION {[1..k -> PathChars] : k \in 0..n}

\* Event folders handed to Scan.
Folders == Strs(MaxLen)

\* The libraries the remote directory may hold: nested roots ("a" and "ab")
\* and a disjoint one ("b").
LibraryPool ==
    { [Name |-> <<"M">>, Path |-> <<"a">>],
      [Name |-> <<"T">>, Path |-> <<"a", "b">>],
      [Name |-> <<"K">>, Path |-> <<"b">>] }

LibLists == UNION {[1..k -> LibraryPool] : k \in 0..MaxLibs}

\* Errors a remote call can produce.
Errors == {"e1", "e2"}

ViewIDs == {<<"v">>, <<"w">>}

\* Identifiers FindItemIDByPath may return with a nil error: empty, blank,
\* and non-blank with and without surrounding whitespace.
ItemIDs == {<<>>, <<" ">>, <<"4">>, <<" ", "4">>}

\* Rewrite rule lists of the configuration: none, one valid rule (which
\* matches its own output, so that rewriting twice differs from rewriting
\* once), one rule whose From does not compile.
RewriteConfigs ==
    { <<>>,
      <<[From |-> <<"a">>, To |-> <<"a", "b">>]>>,
      <<[From |-> <<"(">>, To |-> <<>>]>> }

\* Config (the fields the target reads).
Configs ==
    [ UserID : {<<"u">>},
      Library : {<<>>, <<" ">>, <<" ", "K">>},
      PreciseRefresh : BOOLEAN,
      Rewrite : RewriteConfigs ]

(* --------------------------- string helpers ---------------------------- *)

\* strings.HasPrefix(s, prefix)
HasPrefix(s, prefix) ==
    /\ Len(s) >= Len(prefix)
    /\ SubSeq(s, 1, Len(prefix)) = prefix

\* unicode.IsSpace on the characters used here.
IsSpace(c) == c \in {" ", "\t", "\n", "\r"}

RECURSIVE TrimLeft(_)
TrimLeft(s) ==
    IF s # <<>> /\ IsSpace(Head(s)) THEN TrimLeft(Tail(s)) ELSE s

RECURSIVE TrimRight(_)
TrimRight(s) ==
    IF s # <<>> /\ IsSpace(s[Len(s)])
    THEN TrimRight(SubSeq(s, 1, Len(s) - 1))
    ELSE s

\* strings.TrimSpace(s)
TrimSpace(s) == TrimRight(TrimLeft(s))

(* ------------------------------ rewriter ------------------------------- *)

\* regexp.Compile(rule.From) succeeds.
RuleCompiles(rule) == \A i \in DOMAIN rule.From : rule.From[i] # "("

\* autoscan.NewRewriter(c.Rewrite): the error it returns.
NewRewriterErr(rules) ==
    IF \A i \in DOMAIN rules : RuleCompiles(rules[i]) THEN "nil" ELSE "badrule"

RECURSIVE RewriteFrom(_, _, _)
RewriteFrom(rules, i, s) ==
    IF i > Len(rules) THEN s
    ELSE IF HasPrefix(s, rules[i].From)
         THEN rules[i].To \o SubSeq(s, Len(rules[i].From) + 1, Len(s))
         ELSE RewriteFrom(rules, i + 1, s)

\* The Rewriter NewRewriter builds: the first rule that matches rewrites the
\* path, a path no rule matches is returned as it is.
Rewriter(rules, s) == RewriteFrom(rules, 1, s)

(* ------------------------- the code of target.Scan --------------------- *)

\* A Scan that works on the folder of the event as it came.
ScanFolder_Unrewritten(rules, f) == f

\* scanFolder := t.rewrite(scan.Folder)
ScanFolder(rules, f) == Rewriter(rules, f)

NoLibrary == "failed determining library"

RECURSIVE ScanLibraryFrom(_, _, _)
ScanLibraryFrom(libraries, i, folder) ==
    IF i > Len(libraries)
    THEN [lib |-> <<>>, err |-> NoLibrary]
    ELSE IF HasPrefix(folder, libraries[i].Path)
         THEN [lib |-> <<libraries[i]>>, err |-> "nil"]
         ELSE ScanLibraryFrom(libraries, i + 1, folder)

\* A resolver that prefers the most specific root: the longest matching root,
\* the earliest of them when several are as long.
getScanLibrary_LongestPrefix(libraries, folder) ==
    LET M == {i \in DOMAIN libraries : HasPrefix(folder, libraries[i].Path)}
    IN  IF M = {}
        THEN [lib |-> <<>>, err |-> NoLibrary]
        ELSE LET best == CHOOSE i \in M :
                     \A j \in M :
                        \/ Len(libraries[j].Path) < Len(libraries[i].Path)
                        \/ /\ Len(libraries[j].Path) = Len(libraries[i].Path)
                           /\ i <= j
             IN  [lib |-> <<libraries[best]>>, err |-> "nil"]

\* target.getScanLibrary(folder): the loop over t.libraries.
getScanLibrary(libraries, folder) == ScanLibraryFrom(libraries, 1, folder)

\* A Scan with the test of the flag inverted.
AfterResolve_Inverted(cfg) ==
    IF cfg.PreciseRefresh THEN "FullScan" ELSE "ResolveView"

\* A Scan that tries the precise refresh whatever the flag says.
AfterResolve_IgnoreFlag(cfg) == "ResolveView"

\* Where Scan goes once the library is known: the test of t.cfg.PreciseRefresh.
AfterResolve(cfg) ==
    IF cfg.PreciseRefresh THEN "ResolveView" ELSE "FullScan"

\* A Scan that goes on without a library when an override names one.
AfterGetScanLibrary_OverrideBypass(err, cfg) ==
    IF err # "nil" /\ TrimSpace(cfg.Library) = <<>>
    THEN [pc |-> "Done", ret |-> "nil"]
    ELSE [pc |-> AfterResolve(cfg), ret |-> "nil"]

\* A Scan that hands the resolution error to its caller.
AfterGetScanLibrary_ReturnErr(err, cfg) ==
    IF err # "nil"
    THEN [pc |-> "Done", ret |-> err]
    ELSE [pc |-> AfterResolve(cfg), ret |-> "nil"]

\* What Scan does with the error of getScanLibrary: return nil at once, or go
\* on to refresh.
AfterGetScanLibrary(err, cfg) ==
    IF err # "nil"
    THEN [pc |-> "Done", ret |-> "nil"]
    ELSE [pc |-> AfterResolve(cfg), ret |-> "nil"]

\* A choice of name that tests the override for "" without trimming it.
EffectiveLibraryName_NoTrim(cfg, lib) ==
    IF cfg.Library = <<>> THEN lib.Name ELSE cfg.Library

\* The library name GetViewID is asked for.
EffectiveLibraryName(cfg, lib) ==
    IF TrimSpace(cfg.Library) = <<>> THEN lib.Name ELSE cfg.Library

\* A Scan that goes on to FindItemIDByPath although GetViewID failed.
AfterGetViewID_IgnoreErr(vErr) == "LocateItem"

\* A Scan that, when GetViewID failed, waits for a retry signal nobody sends.
AfterGetViewID_Hang(vErr) ==
    IF vErr # "nil" THEN "Backoff" ELSE "LocateItem"

\* A Scan that asks for the view again when GetViewID failed.
AfterGetViewID_Retry(vErr) ==
    IF vErr # "nil" THEN "ResolveView" ELSE "LocateItem"

\* Where Scan goes after GetViewID returned vErr.
AfterGetViewID(vErr) ==
    IF vErr # "nil" THEN "FullScan" ELSE "LocateItem"

\* A Scan that tests the identifier for "" without trimming it.
AfterFindItem_NoTrim(id, fErr) ==
    IF fErr # "nil" THEN "FullScan"
    ELSE IF id # <<>> THEN "RefreshItem"
    ELSE "FullScan"

\* Where Scan goes after FindItemIDByPath returned (id, fErr).
AfterFindItem(id, fErr) ==
    IF fErr # "nil" THEN "FullScan"
    ELSE IF TrimSpace(id) # <<>> THEN "RefreshItem"
    ELSE "FullScan"

\* A Scan that refreshes the identifier with its whitespace trimmed.
RefreshArg_Trimmed(id) == TrimSpace(id)

\* The identifier RefreshItem is given: itemID as FindItemIDByPath returned it.
RefreshArg(id) == id

\* A Scan that returns nil after RefreshItem whether it failed or not.
AfterRefreshItem_AlwaysReturn(rErr) == [pc |-> "Done", ret |-> "nil"]

\* A Scan without the return after a successful refresh.
AfterRefreshItem_FallThrough(rErr) == [pc |-> "FullScan", ret |-> "nil"]

\* A Scan that returns the refresh error instead of falling back.
AfterRefreshItem_ReturnErr(rErr) == [pc |-> "Done", ret |-> rErr]

\* Where Scan goes after RefreshItem returned rErr, and what it returns when
\* it returns there.
AfterRefreshItem(rErr) ==
    IF rErr # "nil"
    THEN [pc |-> "FullScan", ret |-> "nil"]
    ELSE [pc |-> "Done", ret |-> "nil"]

\* A Scan that swallows the error of api.Scan.
AfterFullScan_Swallow(err) == "nil"

\* What Scan returns after api.Scan returned err.
AfterFullScan(err) == IF err # "nil" THEN err ELSE "nil"

\* An Available that reports the server as available whatever the probe said.
AvailableResult_Swallow(aErr) == "nil"

\* What Available returns after api.Available() returned aErr.
AvailableResult(aErr) == aErr

\* A New that builds the target although api.Libraries() failed.
AfterLibraries_IgnoreErr(c, libraries, lErr) ==
    [target |-> <<[cfg |-> c, libraries |-> libraries, rewrite |-> c.Rewrite]>>,
     err |-> "nil"]

\* What New returns after api.Libraries() returned (libraries, lErr).
AfterLibraries(c, libraries, lErr) ==
    IF lErr # "nil"
    THEN [target |-> <<>>, err |-> lErr]
    ELSE [target |-> <<[cfg |-> c, libraries |-> libraries,
                        rewrite |-> c.Rewrite]>>,
          err |-> "nil"]

(* ------------------------------- state --------------------------------- *)

VARIABLES
    directory,   \* the libraries the remote server holds at present
    changes,     \* how often the server's libraries changed since New
    conf,        \* the Config handed to New
    target,      \* the *target New returned: <<>> is nil
    newErr,      \* the error New returned
    newCalls,    \* the calls New made on the api client, in order
    pc,          \* per caller: where its invocation stands
    method,      \* per caller: the method it invoked
    folder,      \* per caller: scan.Folder of its event
    scanFolder,  \* per caller: the local scanFolder
    lib,         \* per caller: the local lib (<<>> is nil)
    libErr,      \* per caller: the local err getScanLibrary returned
    libraryName, \* per caller: the local libraryName
    viewID,      \* per caller: the local viewID
    itemID,      \* per caller: the local itemID
    ret,         \* per caller: the error its invocation returned
    calls,       \* per caller: the calls it made on t.api, in order
    visited      \* per caller: the orchestrator states it entered, in order

serverVars == <<directory, changes>>
adapterVars == <<conf, target, newErr, newCalls>>
localVars == <<folder, scanFolder, lib, libErr, libraryName, viewID, itemID>>
callVars == <<pc, method, ret, calls, visited>>
vars == <<serverVars, adapterVars, localVars, callVars>>

\* The receiver t of the methods (defined once New has succeeded).
t == target[1]

\* Locals kept in one place for all invocations, as fields of a shared
\* target would be.
Frame_Shared(p) == 1

\* Where the locals of caller p's invocation live: its own stack frame (Scan
\* has a value receiver and declares scanFolder, lib, libraryName, viewID and
\* itemID with :=).
Frame(p) == p

\* A Scan that resolves against the libraries the server holds now.
Snapshot_Refetch(tt) == directory

\* The list getScanLibrary ranges over: the field libraries of the receiver.
Snapshot(tt) == tt.libraries

Call(op, args, val, err) == [op |-> op, args |-> args, val |-> val, err |-> err]

OrNil(S) == S \cup {"nil"}

Init ==
    /\ directory \in LibLists
    /\ changes = 0
    /\ conf \in Configs
    /\ target = <<>>
    /\ newErr = "nil"
    /\ newCalls = <<>>
    /\ pc = [p \in Procs |-> "Idle"]
    /\ method = [p \in Procs |-> "none"]
    /\ folder = [p \in Procs |-> <<>>]
    /\ scanFolder = [p \in Procs |-> <<>>]
    /\ lib = [p \in Procs |-> <<>>]
    /\ libErr = [p \in Procs |-> "nil"]
    /\ libraryName = [p \in Procs |-> <<>>]
    /\ viewID = [p \in Procs |-> <<>>]
    /\ itemID = [p \in Procs |-> <<>>]
    /\ ret = [p \in Procs |-> "nil"]
    /\ calls = [p \in Procs |-> <<>>]
    /\ visited = [p \in Procs |-> <<>>]

(* ------------------------------ actions -------------------------------- *)

\* New(c): build the rewriter, fetch the libraries, return the target.
New ==
    /\ target = <<>>
    /\ newErr = "nil"
    /\ IF NewRewriterErr(conf.Rewrite) # "nil"
       THEN /\ newErr' = NewRewriterErr(conf.Rewrite)
            /\ target' = <<>>
            /\ newCalls' = newCalls
       ELSE \E lErr \in OrNil(Errors) :
              LET libraries == IF lErr = "nil" THEN directory ELSE <<>>
                  res == AfterLibraries(conf, libraries, lErr)
              IN  /\ newCalls' = Append(newCalls,
                         [op |-> "Libraries", val |-> libraries, err |-> lErr])
                  /\ newErr' = res.err
                  /\ target' = res.target
    /\ UNCHANGED <<serverVars, conf, localVars, callVars>>

\* t.Available()
Available(p) ==
    /\ target # <<>>
    /\ pc[p] = "Idle"
    /\ \E err \in OrNil(Errors) :
         /\ calls' = [calls EXCEPT ![p] = <<Call("Available", <<>>, <<>>, err)>>]
         /\ ret' = [ret EXCEPT ![p] = AvailableResult(err)]
    /\ method' = [method EXCEPT ![p] = "Available"]
    /\ pc' = [pc EXCEPT ![p] = "Done"]
    /\ UNCHANGED <<serverVars, adapterVars, localVars, visited>>

\* t.Scan(scan) up to the first remote call: rewrite, getScanLibrary, the
\* PreciseRefresh test and the choice of libraryName.
Scan_Entry(p) ==
    /\ target # <<>>
    /\ pc[p] = "Idle"
    /\ \E f \in Folders :
        LET sf == ScanFolder(t.rewrite, f)
            r == getScanLibrary(Snapshot(t), sf)
            next == AfterGetScanLibrary(r.err, t.cfg)
        IN  /\ folder' = [folder EXCEPT ![Frame(p)] = f]
            /\ scanFolder' = [scanFolder EXCEPT ![Frame(p)] = sf]
            /\ lib' = [lib EXCEPT ![Frame(p)] = r.lib]
            /\ libErr' = [libErr EXCEPT ![Frame(p)] = r.err]
            /\ libraryName' = [libraryName EXCEPT ![Frame(p)] =
                   IF next.pc = "ResolveView"
                   THEN EffectiveLibraryName(t.cfg, r.lib[1])
                   ELSE <<>>]
            /\ pc' = [pc EXCEPT ![p] = next.pc]
            /\ ret' = [ret EXCEPT ![p] = next.ret]
            /\ visited' = [visited EXCEPT ![p] = <<next.pc>>]
    /\ method' = [method EXCEPT ![p] = "Scan"]
    /\ UNCHANGED <<serverVars, adapterVars, viewID, itemID, calls>>

\* viewID, vErr := t.api.GetViewID(t.cfg.UserID, libraryName)
Scan_GetViewID(p) ==
    /\ pc[p] = "ResolveView"
    /\ \E err \in OrNil(Errors), v \in ViewIDs :
        LET val == IF err = "nil" THEN v ELSE <<>>
            next == AfterGetViewID(err)
        IN  /\ calls' = [calls EXCEPT ![p] = Append(@,
                   Call("GetViewID", <<t.cfg.UserID, libraryName[Frame(p)]>>, val, err))]
            /\ viewID' = [viewID EXCEPT ![Frame(p)] = val]
            /\ pc' = [pc EXCEPT ![p] = next]
            /\ visited' = [visited EXCEPT ![p] = Append(@, next)]
    /\ UNCHANGED <<serverVars, adapterVars, method, folder, scanFolder, lib, libErr,
                   libraryName, itemID, ret>>

\* itemID, fErr := t.api.FindItemIDByPath(t.cfg.UserID, viewID, scanFolder)
Scan_FindItemIDByPath(p) ==
    /\ pc[p] = "LocateItem"
    /\ \E err \in OrNil(Errors), id \in ItemIDs :
        LET val == IF err = "nil" THEN id ELSE <<>>
            next == AfterFindItem(val, err)
        IN  /\ calls' = [calls EXCEPT ![p] = Append(@,
                   Call("FindItemIDByPath",
                        <<t.cfg.UserID, viewID[Frame(p)], scanFolder[Frame(p)]>>, val, err))]
            /\ itemID' = [itemID EXCEPT ![Frame(p)] = val]
            /\ pc' = [pc EXCEPT ![p] = next]
            /\ visited' = [visited EXCEPT ![p] = Append(@, next)]
    /\ UNCHANGED <<serverVars, adapterVars, method, folder, scanFolder, lib, libErr,
                   libraryName, viewID, ret>>

\* rErr := t.api.RefreshItem(itemID)
Scan_RefreshItem(p) ==
    /\ pc[p] = "RefreshItem"
    /\ \E err \in OrNil(Errors) :
        LET next == AfterRefreshItem(err)
        IN  /\ calls' = [calls EXCEPT ![p] = Append(@,
                   Call("RefreshItem", <<RefreshArg(itemID[Frame(p)])>>, <<>>, err))]
            /\ pc' = [pc EXCEPT ![p] = next.pc]
            /\ ret' = [ret EXCEPT ![p] = next.ret]
            /\ visited' = [visited EXCEPT ![p] = Append(@, next.pc)]
    /\ UNCHANGED <<serverVars, adapterVars, method, localVars>>

\* err := t.api.Scan(scanFolder), and the return
Scan_FullScan(p) ==
    /\ pc[p] = "FullScan"
    /\ \E err \in OrNil(Errors) :
        /\ calls' = [calls EXCEPT ![p] = Append(@,
               Call("Scan", <<scanFolder[Frame(p)]>>, <<>>, err))]
        /\ ret' = [ret EXCEPT ![p] = AfterFullScan(err)]
    /\ pc' = [pc EXCEPT ![p] = "Done"]
    /\ visited' = [visited EXCEPT ![p] = Append(@, "Done")]
    /\ UNCHANGED <<serverVars, adapterVars, method, localVars>>

\* The caller takes the result; the invocation's locals go out of scope.
Return(p) ==
    /\ pc[p] = "Done"
    /\ pc' = [pc EXCEPT ![p] = "Idle"]
    /\ method' = [method EXCEPT ![p] = "none"]
    /\ folder' = [folder EXCEPT ![Frame(p)] = <<>>]
    /\ scanFolder' = [scanFolder EXCEPT ![Frame(p)] = <<>>]
    /\ lib' = [lib EXCEPT ![Frame(p)] = <<>>]
    /\ libErr' = [libErr EXCEPT ![Frame(p)] = "nil"]
    /\ libraryName' = [libraryName EXCEPT ![Frame(p)] = <<>>]
    /\ viewID' = [viewID EXCEPT ![Frame(p)] = <<>>]
    /\ itemID' = [itemID EXCEPT ![Frame(p)] = <<>>]
    /\ ret' = [ret EXCEPT ![p] = "nil"]
    /\ calls' = [calls EXCEPT ![p] = <<>>]
    /\ visited' = [visited EXCEPT ![p] = <<>>]
    /\ UNCHANGED <<serverVars, adapterVars>>

\* No other caller has an invocation in progress.
Alone(p) == \A q \in Procs \ {p} : pc[q] = "Idle"

\* The methods of one target, invoked by the callers one invocation at a time.
Next ==
    \/ New
    \/ \E p \in Procs : Alone(p) /\ Available(p)
    \/ \E p \in Procs : Alone(p) /\ Scan_Entry(p)
    \/ \E p \in Procs : Scan_GetViewID(p)
    \/ \E p \in Procs : Scan_FindItemIDByPath(p)
    \/ \E p \in Procs : Scan_RefreshItem(p)
    \/ \E p \in Procs : Scan_FullScan(p)
    \/ \E p \in Procs : Return(p)

Spec == Init /\ [][Next]_vars

(* --------------------- a server whose libraries change ------------------ *)

\* A library is removed from the server, or one is added to it, after the
\* target was built; the target is not told.
DirectoryChange ==
    /\ target # <<>>
    /\ changes < MaxChanges
    /\ \/ /\ directory # <<>>
          /\ directory' = SubSeq(directory, 1, Len(directory) - 1)
       \/ /\ Len(directory) < MaxLibs
          /\ \E l \in LibraryPool : directory' = Append(directory, l)
    /\ changes' = changes + 1
    /\ UNCHANGED <<adapterVars, localVars, callVars>>

\* Targets without rewrite rules and without a library override.
InitStale ==
    /\ Init
    /\ conf.Rewrite = <<>>
    /\ conf.Library = <<>>

NextStale == Next \/ DirectoryChange

SpecStale == InitStale /\ [][NextStale]_vars

TypeOK ==
    /\ conf \in Configs
    /\ Len(target) <= 1
    /\ \A p \in Procs :
         pc[p] \in {"Idle", "ResolveView", "LocateItem", "RefreshItem",
                    "FullScan", "Done"}

(* ------------------------- concurrent invocations ----------------------- *)

\* The events the concurrent callers dispatch.
ConcFolders == {<<"a">>, <<"b">>}

\* The answers the server gives the concurrent callers.
ConcValues == {<<>>, <<"4">>, <<"v">>, <<"w">>}

ConcInputs ==
    \A p \in Procs :
        /\ method[p] = "Scan" => folder[Frame(p)] \in ConcFolders
        /\ calls[p] # <<>> =>
              /\ calls[p][Len(calls[p])].err \in {"nil", "e1"}
              /\ calls[p][Len(calls[p])].val \in ConcValues

\* One target with precise refresh on, a valid rewrite rule and no override,
\* built over two libraries.
InitConc ==
    /\ Init
    /\ conf.PreciseRefresh
    /\ conf.Library = <<>>
    /\ conf.Rewrite # <<>>
    /\ NewRewriterErr(conf.Rewrite) = "nil"
    /\ directory = <<[Name |-> <<"M">>, Path |-> <<"a">>],
                     [Name |-> <<"K">>, Path |-> <<"b">>]>>

\* The methods of one target, invoked by the callers at any time: the
\* invocations interleave at their remote calls.
NextConc ==
    /\ \/ New
       \/ \E p \in Procs : Available(p)
       \/ \E p \in Procs : Scan_Entry(p)
       \/ \E p \in Procs : Scan_GetViewID(p)
       \/ \E p \in Procs : Scan_FindItemIDByPath(p)
       \/ \E p \in Procs : Scan_RefreshItem(p)
       \/ \E p \in Procs : Scan_FullScan(p)
       \/ \E p \in Procs : Return(p)
    /\ ConcInputs'

SpecConc == InitConc /\ [][NextConc]_vars

(* ------------------------------ termination ---------------------------- *)

\* The events dispatched when termination is checked: one under a library
\* root, one under none.
LiveFolders == {<<"a">>, <<>>}

\* The answers the server gives when termination is checked.
LiveValues == {<<>>, <<" ">>, <<"4">>, <<"v">>}

LiveInputs ==
    \A p \in Procs :
        /\ method[p] = "Scan" => folder[Frame(p)] \in LiveFolders
        /\ calls[p] # <<>> =>
              /\ calls[p][Len(calls[p])].err \in {"nil", "e1"}
              /\ calls[p][Len(calls[p])].val \in LiveValues

NextLive ==
    /\ \/ New
       \/ \E p \in Procs : Available(p)
       \/ \E p \in Procs : Scan_Entry(p)
       \/ \E p \in Procs : Scan_GetViewID(p)
       \/ \E p \in Procs : Scan_FindItemIDByPath(p)
       \/ \E p \in Procs : Scan_RefreshItem(p)
       \/ \E p \in Procs : Scan_FullScan(p)
       \/ \E p \in Procs : Return(p)
    /\ LiveInputs'

\* The remote call caller p is about to make returns, and Scan runs on to
\* its next remote call or to its return.
RemoteCallReturns(p) ==
    /\ \/ Scan_GetViewID(p)
       \/ Scan_FindItemIDByPath(p)
       \/ Scan_RefreshItem(p)
       \/ Scan_FullScan(p)
    /\ LiveInputs'

\* Concurrent invocations every remote call of which returns.
SpecLive ==
    /\ InitConc
    /\ [][NextLive]_vars
    /\ \A p \in Procs : WF_vars(RemoteCallReturns(p))

(* ----------------------- vocabulary of the claims ---------------------- *)

\* r is a prefix of s: s begins with the characters of r.
IsPrefixOf(r, s) ==
    /\ Len(r) <= Len(s)
    /\ \A i \in 1..Len(r) : r[i] = s[i]

\* s is empty or holds whitespace only.
IsBlank(s) == \A i \in 1..Len(s) : s[i] \in {" ", "\t", "\n", "\r"}

\* Caller p is inside, or has just finished, an invocation of Scan.
InScan(p) == method[p] = "Scan"

\* The invocation of caller p has returned.
Returned(p) == pc[p] = "Done"

\* The positions in the call log of p at which operation o was called.
CallsOf(p, o) == {i \in 1..Len(calls[p]) : calls[p][i].op = o}

Invoked(p, o) == CallsOf(p, o) # {}

\* Operation o was called by p and came back without an error.
Succeeded(p, o) == \E i \in CallsOf(p, o) : calls[p][i].err = "nil"

\* Operation o was called by p and came back with an error.
Failed(p, o) == \E i \in CallsOf(p, o) : calls[p][i].err # "nil"

\* The path of p's event as the rewriter of the target rewrites it.
Rewritten(p) == Rewriter(t.rewrite, folder[p])

\* Some library root of the snapshot is a prefix of p's rewritten path.
Resolves(p) ==
    \E i \in 1..Len(t.libraries) : IsPrefixOf(t.libraries[i].Path, Rewritten(p))

(* ------------------------------- claims -------------------------------- *)

\* C1: in a Scan event whose rewritten path resolves to a library, with
\* PreciseRefresh off, GetViewID, FindItemIDByPath and RefreshItem are never
\* called, and when Scan returns api.Scan has been called exactly once, with
\* the rewritten path.
C1_DisabledOnlyScans ==
    \A p \in Procs :
        (InScan(p) /\ Resolves(p) /\ ~t.cfg.PreciseRefresh) =>
            /\ ~Invoked(p, "GetViewID")
            /\ ~Invoked(p, "FindItemIDByPath")
            /\ ~Invoked(p, "RefreshItem")
            /\ Returned(p) =>
                 /\ Len(calls[p]) = 1
                 /\ calls[p][1].op = "Scan"
                 /\ calls[p][1].args = <<Rewritten(p)>>

\* A rewritten event (path differs from the folder) has been scanned with
\* PreciseRefresh off.
C1_Witness ==
    \E p \in Procs :
        /\ InScan(p) /\ Returned(p) /\ Resolves(p)
        /\ ~t.cfg.PreciseRefresh
        /\ Rewritten(p) # folder[p]
        /\ Invoked(p, "Scan")

\* C2: when GetViewID succeeded, FindItemIDByPath succeeded with a non-blank
\* identifier and RefreshItem succeeded (PreciseRefresh on), the event is in
\* Done, api.Scan was called zero times and Scan returns nil.
C2_PreciseSuccessNoScan ==
    \A p \in Procs :
        ( /\ InScan(p)
          /\ t.cfg.PreciseRefresh
          /\ Succeeded(p, "GetViewID")
          /\ \E i \in CallsOf(p, "FindItemIDByPath") :
                calls[p][i].err = "nil" /\ ~IsBlank(calls[p][i].val)
          /\ Succeeded(p, "RefreshItem") ) =>
            /\ Returned(p)
            /\ ~Invoked(p, "Scan")
            /\ ret[p] = "nil"

\* A precise refresh has succeeded.
C2_Witness ==
    \E p \in Procs :
        /\ InScan(p) /\ Returned(p)
        /\ Succeeded(p, "GetViewID")
        /\ Succeeded(p, "FindItemIDByPath")
        /\ Succeeded(p, "RefreshItem")

\* C3: when RefreshItem failed, api.Scan is called after it before Scan
\* returns, and Scan returns what that api.Scan call returned (its error, or
\* nil), never the error of RefreshItem as such.
C3_RefreshFailureFallsBack ==
    \A p \in Procs :
        (InScan(p) /\ Failed(p, "RefreshItem")) =>
            /\ pc[p] \in {"FullScan", "Done"}
            /\ Returned(p) =>
                 \E i \in CallsOf(p, "RefreshItem"), j \in CallsOf(p, "Scan") :
                    /\ i < j
                    /\ ret[p] = calls[p][j].err

\* RefreshItem failed with one error, api.Scan with another, and Scan has
\* returned.
C3_Witness ==
    \E p \in Procs :
        /\ InScan(p) /\ Returned(p)
        /\ \E i \in CallsOf(p, "RefreshItem"), j \in CallsOf(p, "Scan") :
              /\ calls[p][i].err # "nil"
              /\ calls[p][j].err # "nil"
              /\ calls[p][i].err # calls[p][j].err

\* C4: when FindItemIDByPath succeeded with an identifier that is empty or
\* all whitespace, RefreshItem is never called in the event and the event
\* falls back to api.Scan.
C4_BlankItemFallsBack ==
    \A p \in Procs :
        ( /\ InScan(p)
          /\ \E i \in CallsOf(p, "FindItemIDByPath") :
                calls[p][i].err = "nil" /\ IsBlank(calls[p][i].val) ) =>
            /\ ~Invoked(p, "RefreshItem")
            /\ pc[p] \in {"FullScan", "Done"}
            /\ Returned(p) => Cardinality(CallsOf(p, "Scan")) = 1

\* An event whose item identifier came back as whitespace has finished.
C4_Witness ==
    \E p \in Procs :
        /\ InScan(p) /\ Returned(p)
        /\ \E i \in CallsOf(p, "FindItemIDByPath") :
              calls[p][i].err = "nil" /\ calls[p][i].val = <<" ">>
        /\ Invoked(p, "Scan")

\* C5: when no library root of the snapshot is a prefix of the rewritten
\* path, Scan makes no remote call and returns nil, whatever PreciseRefresh is.
C5_NoLibraryDropsEvent ==
    \A p \in Procs :
        (InScan(p) /\ ~Resolves(p)) =>
            /\ calls[p] = <<>>
            /\ Returned(p)
            /\ ret[p] = "nil"

\* An event no root matches has been dropped although the snapshot holds
\* libraries and PreciseRefresh is on.
C5_Witness ==
    \E p \in Procs :
        /\ InScan(p) /\ Returned(p) /\ ~Resolves(p)
        /\ t.libraries # <<>>
        /\ t.cfg.PreciseRefresh
        /\ calls[p] = <<>>

\* C6: Scan returns an error exactly when api.Scan was called in the event
\* and failed, and the error returned is the one api.Scan produced; until it
\* returns nothing but nil is held as its result, whatever resolution,
\* GetViewID, FindItemIDByPath or RefreshItem did.
C6_OnlyScanErrorSurfaces ==
    \A p \in Procs :
        InScan(p) =>
            /\ ~Returned(p) => ret[p] = "nil"
            /\ Returned(p) =>
                 /\ ret[p] # "nil" <=> Failed(p, "Scan")
                 /\ ret[p] # "nil" =>
                      \E j \in CallsOf(p, "Scan") : calls[p][j].err = ret[p]

\* Scan has returned the error of api.Scan after GetViewID had failed with
\* a different one.
C6_Witness ==
    \E p \in Procs :
        /\ InScan(p) /\ Returned(p)
        /\ ret[p] # "nil"
        /\ \E i \in CallsOf(p, "GetViewID") :
              calls[p][i].err # "nil" /\ calls[p][i].err # ret[p]

\* C7: getScanLibrary returns the first library, in the order of the
\* snapshot, whose root is a prefix of the path (an earlier shorter root wins
\* over a later longer one), and the not-found error exactly when no root is
\* a prefix.
C7_FirstMatch ==
    \A p \in Procs :
        InScan(p) =>
            LET L == t.libraries
                M == {i \in 1..Len(L) : IsPrefixOf(L[i].Path, scanFolder[p])}
            IN  /\ M = {} <=> libErr[p] # "nil"
                /\ M = {} => lib[p] = <<>>
                /\ M # {} =>
                     \E i \in M :
                        /\ \A j \in M : i <= j
                        /\ lib[p] = <<L[i]>>

\* A path under two nested roots has been resolved to the earlier, shorter
\* root although a later root is longer.
C7_Witness ==
    \E p \in Procs :
        /\ InScan(p)
        /\ Len(t.libraries) >= 2
        /\ IsPrefixOf(t.libraries[1].Path, scanFolder[p])
        /\ IsPrefixOf(t.libraries[2].Path, scanFolder[p])
        /\ Len(t.libraries[1].Path) < Len(t.libraries[2].Path)
        /\ lib[p] = <<t.libraries[1]>>

\* C8: when GetViewID failed (PreciseRefresh on), FindItemIDByPath and
\* RefreshItem are not called in the event, the event is in FullScan or past
\* it, and api.Scan has been called once when Scan returns.
C8_ViewFailureFallsBack ==
    \A p \in Procs :
        (InScan(p) /\ Failed(p, "GetViewID")) =>
            /\ t.cfg.PreciseRefresh
            /\ ~Invoked(p, "FindItemIDByPath")
            /\ ~Invoked(p, "RefreshItem")
            /\ pc[p] \in {"FullScan", "Done"}
            /\ Returned(p) => Cardinality(CallsOf(p, "Scan")) = 1

\* An event whose view lookup failed has finished with a full scan.
C8_Witness ==
    \E p \in Procs :
        /\ InScan(p) /\ Returned(p)
        /\ Failed(p, "GetViewID")
        /\ Succeeded(p, "Scan")

\* C9: within one Scan event each of GetViewID, FindItemIDByPath,
\* RefreshItem and api.Scan is called at most once and each orchestrator
\* state is entered at most once.
C9_NoRetry ==
    \A p \in Procs :
        InScan(p) =>
            /\ \A o \in {"GetViewID", "FindItemIDByPath", "RefreshItem", "Scan"} :
                  Cardinality(CallsOf(p, o)) <= 1
            /\ \A i, j \in 1..Len(visited[p]) :
                  visited[p][i] = visited[p][j] => i = j

\* The longest event: every remote call made once, RefreshItem and api.Scan
\* both failing, every orchestrator state entered.
C9_Witness ==
    \E p \in Procs :
        /\ InScan(p) /\ Returned(p)
        /\ Len(calls[p]) = 4
        /\ Failed(p, "RefreshItem")
        /\ Failed(p, "Scan")
        /\ visited[p] =
             <<"ResolveView", "LocateItem", "RefreshItem", "FullScan", "Done">>

\* C10 as stated: the name passed to GetViewID is the configured override
\* whenever the override is not the empty string, and the name of the
\* resolved library otherwise.
C10_AsStated ==
    \A p \in Procs :
        InScan(p) =>
            \A i \in CallsOf(p, "GetViewID") :
                calls[p][i].args[2] =
                    IF t.cfg.Library # <<>>
                    THEN t.cfg.Library
                    ELSE lib[p][1].Name

\* C10 (amended): the name passed to GetViewID is the configured override,
\* as configured, whenever the override holds a character that is not
\* whitespace, and the name of the resolved library when the override is
\* empty or all whitespace.
C10_OverrideUnlessBlank ==
    \A p \in Procs :
        InScan(p) =>
            \A i \in CallsOf(p, "GetViewID") :
                calls[p][i].args[2] =
                    IF ~IsBlank(t.cfg.Library)
                    THEN t.cfg.Library
                    ELSE lib[p][1].Name

\* GetViewID has been asked for the resolved library's name under an
\* override made of whitespace.
C10_Witness ==
    \E p \in Procs :
        /\ InScan(p)
        /\ t.cfg.Library # <<>>
        /\ IsBlank(t.cfg.Library)
        /\ \E i \in CallsOf(p, "GetViewID") :
              calls[p][i].args[2] = lib[p][1].Name

\* C11: New yields a target only if the rewrite rules are valid and the
\* Libraries() call of New succeeded; when either fails New returns that
\* error and no target, and no method ever runs without a target.
C11_ConstructionAllOrNothing ==
    /\ target # <<>> =>
         /\ \A i \in 1..Len(conf.Rewrite) :
               \A k \in 1..Len(conf.Rewrite[i].From) :
                  conf.Rewrite[i].From[k] # "("
         /\ Len(newCalls) = 1
         /\ newCalls[1].op = "Libraries"
         /\ newCalls[1].err = "nil"
         /\ newErr = "nil"
    /\ newErr # "nil" =>
         /\ target = <<>>
         /\ IF newCalls = <<>>
            THEN newErr = NewRewriterErr(conf.Rewrite)
            ELSE newErr = newCalls[1].err
    /\ (newCalls # <<>> /\ newCalls[1].err # "nil") => newErr = newCalls[1].err
    /\ \A p \in Procs : method[p] # "none" => target # <<>>

\* New has returned the error of a failed Libraries() call, and no target.
C11_Witness ==
    /\ newCalls # <<>>
    /\ newCalls[1].err # "nil"
    /\ newErr = newCalls[1].err
    /\ target = <<>>

\* The first library of list L whose root is a prefix of path s: <<>> when
\* there is none.
FirstMatch(L, s) ==
    LET M == {i \in 1..Len(L) : IsPrefixOf(L[i].Path, s)}
    IN  IF M = {} THEN <<>>
        ELSE <<L[CHOOSE i \in M : \A j \in M : i <= j]>>

\* C12: once built, the target keeps the configuration it was given and the
\* libraries its one Libraries() call returned; no Scan or Available calls
\* Libraries() again, and every resolution is made against the list captured
\* at construction, whatever the server holds by then.
C12_SnapshotNeverRefreshed ==
    target # <<>> =>
        /\ Len(newCalls) = 1
        /\ t.cfg = conf
        /\ t.rewrite = conf.Rewrite
        /\ t.libraries = newCalls[1].val
        /\ \A p \in Procs :
              /\ \A i \in 1..Len(calls[p]) : calls[p][i].op # "Libraries"
              /\ InScan(p) => lib[p] = FirstMatch(newCalls[1].val, scanFolder[p])

\* An event has been resolved to a library the server no longer holds under
\* any root that matches the path.
C12_Witness ==
    \E p \in Procs :
        /\ InScan(p) /\ Returned(p)
        /\ lib[p] # <<>>
        /\ directory # t.libraries
        /\ FirstMatch(directory, scanFolder[p]) = <<>>
        /\ Invoked(p, "Scan")

\* What an invocation of Scan running alone does after its first n remote
\* calls, as a function of its own event, the target as built and the
\* answers to those calls: the next call it makes, or the value it returns.
SoloStep(p, n) ==
    LET sf == Rewritten(p)
        L == FirstMatch(newCalls[1].val, sf)
        name == IF IsBlank(conf.Library) THEN L[1].Name ELSE conf.Library
        full == [kind |-> "call", op |-> "Scan", args |-> <<sf>>, ret |-> "nil"]
        last == calls[p][n]
    IN  IF n = 0
        THEN IF L = <<>>
             THEN [kind |-> "return", op |-> "", args |-> <<>>, ret |-> "nil"]
             ELSE IF conf.PreciseRefresh
                  THEN [kind |-> "call", op |-> "GetViewID",
                        args |-> <<conf.UserID, name>>, ret |-> "nil"]
                  ELSE full
        ELSE IF last.op = "GetViewID"
        THEN IF last.err = "nil"
             THEN [kind |-> "call", op |-> "FindItemIDByPath",
                   args |-> <<conf.UserID, last.val, sf>>, ret |-> "nil"]
             ELSE full
        ELSE IF last.op = "FindItemIDByPath"
        THEN IF last.err = "nil" /\ ~IsBlank(last.val)
             THEN [kind |-> "call", op |-> "RefreshItem",
                   args |-> <<last.val>>, ret |-> "nil"]
             ELSE full
        ELSE IF last.op = "RefreshItem"
        THEN IF last.err = "nil"
             THEN [kind |-> "return", op |-> "", args |-> <<>>, ret |-> "nil"]
             ELSE full
        ELSE [kind |-> "return", op |-> "", args |-> <<>>, ret |-> last.err]

\* C13: with Scan invocations interleaved on one target, the target stays as
\* New built it, and the calls each invocation has made and the result it
\* returns are those of the same invocation running alone: a function of its
\* own event, the target as built and the answers to its own calls.
C13_ConcurrentAsAlone ==
    /\ target # <<>> =>
         t = [cfg |-> conf, libraries |-> newCalls[1].val,
              rewrite |-> conf.Rewrite]
    /\ \A p \in Procs :
         InScan(p) =>
            /\ \A n \in 0..(Len(calls[p]) - 1) :
                  /\ SoloStep(p, n).kind = "call"
                  /\ SoloStep(p, n).op = calls[p][n + 1].op
                  /\ SoloStep(p, n).args = calls[p][n + 1].args
            /\ IF SoloStep(p, Len(calls[p])).kind = "return"
               THEN Returned(p) /\ ret[p] = SoloStep(p, Len(calls[p])).ret
               ELSE ~Returned(p)

\* Two invocations for different events are in progress at once, each past
\* its view lookup with a different view, one already past its item lookup.
C13_Witness ==
    \E p, q \in Procs :
        /\ p # q
        /\ InScan(p) /\ InScan(q)
        /\ ~Returned(p) /\ ~Returned(q)
        /\ folder[p] # folder[q]
        /\ Succeeded(p, "GetViewID") /\ Succeeded(q, "GetViewID")
        /\ calls[p][1].val # calls[q][1].val
        /\ Succeeded(p, "FindItemIDByPath")
        /\ ~Invoked(q, "FindItemIDByPath")

\* The event of p ended in success: a precise refresh or a full scan was done.
EndedInSuccess(p) ==
    /\ ret[p] = "nil"
    /\ Succeeded(p, "RefreshItem") \/ Succeeded(p, "Scan")

\* The event of p was dropped: no library matches and nothing was called.
EndedInDrop(p) ==
    /\ ret[p] = "nil"
    /\ ~Resolves(p)
    /\ calls[p] = <<>>

\* The event of p ended in the error of the full scan.
EndedInError(p) ==
    /\ ret[p] # "nil"
    /\ \E i \in CallsOf(p, "Scan") : calls[p][i].err = ret[p]

ExactlyOneOutcome(p) ==
    /\ EndedInSuccess(p) \/ EndedInDrop(p) \/ EndedInError(p)
    /\ ~(EndedInSuccess(p) /\ EndedInDrop(p))
    /\ ~(EndedInSuccess(p) /\ EndedInError(p))
    /\ ~(EndedInDrop(p) /\ EndedInError(p))

\* C14: provided every remote call returns, every Scan invocation eventually
\* returns, in exactly one of three outcomes: success, drop, or the error of
\* the full scan.
C14_ScanTerminates ==
    \A p \in Procs :
        InScan(p) ~> (InScan(p) /\ Returned(p) /\ ExactlyOneOutcome(p))

\* An invocation has returned the error of the full scan it fell back to
\* after a failed item refresh, while another invocation is still running.
C14_Witness ==
    \E p, q \in Procs :
        /\ InScan(p) /\ Returned(p) /\ EndedInError(p)
        /\ Failed(p, "RefreshItem")
        /\ InScan(q) /\ ~Returned(q)

\* C15: Available returns exactly what the api client's Available() returned
\* (its error, or nil), makes no other remote call, and leaves the library
\* snapshot and the configuration of the target as New set them.
C15_AvailableDelegates ==
    \A p \in Procs :
        method[p] = "Available" =>
            /\ Returned(p)
            /\ Len(calls[p]) = 1
            /\ calls[p][1].op = "Available"
            /\ ret[p] = calls[p][1].err
            /\ Len(newCalls) = 1
            /\ t.libraries = newCalls[1].val
            /\ t.cfg = conf

\* Available has returned the error of the probe, on a target that holds
\* libraries.
C15_Witness ==
    \E p \in Procs :
        /\ method[p] = "Available"
        /\ Returned(p)
        /\ ret[p] = "e2"
        /\ calls[p][1].err = "e2"
        /\ t.libraries # <<>>

\* The place of a remote operation in the order GetViewID, FindItemIDByPath,
\* RefreshItem, Scan.
Rank(o) ==
    CASE o = "GetViewID" -> 1
      [] o = "FindItemIDByPath" -> 2
      [] o = "RefreshItem" -> 3
      [] o = "Scan" -> 4
      [] OTHER -> 0

\* C16: within one event the remote calls are made in the order GetViewID,
\* FindItemIDByPath, RefreshItem, Scan; FindItemIDByPath only after a
\* successful GetViewID, RefreshItem only after a FindItemIDByPath that
\* succeeded with a non-blank identifier, and api.Scan never after a
\* successful RefreshItem and, with PreciseRefresh on, only right after a
\* step of the precise attempt that failed or came back blank.
C16_CallOrder ==
    \A p \in Procs :
        InScan(p) =>
            LET c == calls[p]
            IN  /\ \A i, j \in 1..Len(c) : i < j => Rank(c[i].op) < Rank(c[j].op)
                /\ \A i \in CallsOf(p, "FindItemIDByPath") :
                      \E k \in 1..(i - 1) :
                         c[k].op = "GetViewID" /\ c[k].err = "nil"
                /\ \A i \in CallsOf(p, "RefreshItem") :
                      \E k \in 1..(i - 1) :
                         /\ c[k].op = "FindItemIDByPath"
                         /\ c[k].err = "nil"
                         /\ ~IsBlank(c[k].val)
                /\ \A i \in CallsOf(p, "Scan") :
                      /\ \A k \in 1..(i - 1) :
                            ~(c[k].op = "RefreshItem" /\ c[k].err = "nil")
                      /\ t.cfg.PreciseRefresh =>
                            /\ i > 1
                            /\ \/ c[i - 1].err # "nil"
                               \/ /\ c[i - 1].op = "FindItemIDByPath"
                                  /\ IsBlank(c[i - 1].val)

\* All four calls have been made in one event: the refresh failed and the
\* full scan that followed succeeded.
C16_Witness ==
    \E p \in Procs :
        /\ InScan(p) /\ Returned(p)
        /\ Len(calls[p]) = 4
        /\ calls[p][3].op = "RefreshItem" /\ calls[p][3].err # "nil"
        /\ calls[p][4].op = "Scan" /\ calls[p][4].err = "nil"

\* C17: when Scan returns for an event whose path resolves to a library,
\* either RefreshItem was called and succeeded or api.Scan was called: one of
\* the two, never both and never neither, with PreciseRefresh on or off.
C17_OneStrategyApplied ==
    \A p \in Procs :
        (InScan(p) /\ Returned(p) /\ Resolves(p)) =>
            Succeeded(p, "RefreshItem") # Invoked(p, "Scan")

\* A resolved event has returned after a failed refresh and a full scan.
C17_Witness ==
    \E p \in Procs :
        /\ InScan(p) /\ Returned(p) /\ Resolves(p)
        /\ Failed(p, "RefreshItem")
        /\ Invoked(p, "Scan")
        /\ ~Succeeded(p, "RefreshItem")

\* C18: the path Scan works on is the event folder rewritten once; that
\* path, not the event folder and not the root of the library, is what the
\* library is resolved from, what FindItemIDByPath is asked for and what
\* api.Scan is given.
C18_RewrittenPathEverywhere ==
    \A p \in Procs :
        InScan(p) =>
            /\ scanFolder[p] = Rewritten(p)
            /\ lib[p] = FirstMatch(t.libraries, Rewritten(p))
            /\ \A i \in CallsOf(p, "FindItemIDByPath") :
                  calls[p][i].args[3] = Rewritten(p)
            /\ \A i \in CallsOf(p, "Scan") :
                  calls[p][i].args = <<Rewritten(p)>>

\* An event has been handled whose rewritten path differs from its folder,
\* from the path rewritten twice and from the root of its library, and whose
\* folder as it came would have resolved to another library or none; both
\* FindItemIDByPath and api.Scan were called.
C18_Witness ==
    \E p \in Procs :
        /\ InScan(p) /\ Returned(p)
        /\ Rewritten(p) # folder[p]
        /\ Rewriter(t.rewrite, Rewritten(p)) # Rewritten(p)
        /\ lib[p] # <<>>
        /\ lib[p][1].Path # Rewritten(p)
        /\ FirstMatch(t.libraries, folder[p]) # lib[p]
        /\ Invoked(p, "FindItemIDByPath")
        /\ Invoked(p, "Scan")

\* C19: FindItemIDByPath is called with the configured user and exactly the
\* view identifier the GetViewID call of the same event returned, and
\* RefreshItem with exactly the identifier FindItemIDByPath returned,
\* whitespace included.
C19_IdentifiersPassedUnchanged ==
    \A p \in Procs :
        InScan(p) =>
            /\ \A i \in CallsOf(p, "FindItemIDByPath") :
                  /\ calls[p][i].args[1] = conf.UserID
                  /\ \E k \in CallsOf(p, "GetViewID") :
                        k < i /\ calls[p][i].args[2] = calls[p][k].val
            /\ \A i \in CallsOf(p, "RefreshItem") :
                  \E k \in CallsOf(p, "FindItemIDByPath") :
                     k < i /\ calls[p][i].args = <<calls[p][k].val>>

\* RefreshItem has been called with an identifier that begins with a space,
\* as FindItemIDByPath returned it.
C19_Witness ==
    \E p \in Procs :
        /\ InScan(p)
        /\ \E k \in CallsOf(p, "FindItemIDByPath") : calls[p][k].val = <<" ", "4">>
        /\ \E i \in CallsOf(p, "RefreshItem") : calls[p][i].args = <<<<" ", "4">>>>

\* C20: a library override does not replace resolution: with an override set
\* and PreciseRefresh on, an event whose rewritten path is under no library
\* root is dropped without a remote call; under an override the library is
\* still the one resolved from the path, remote calls are made only for
\* events that resolve, and api.Scan is still given the rewritten path.
C20_OverrideDoesNotBypass ==
    \A p \in Procs :
        (InScan(p) /\ t.cfg.Library # <<>>) =>
            /\ (t.cfg.PreciseRefresh /\ ~Resolves(p)) =>
                  /\ calls[p] = <<>>
                  /\ Returned(p)
                  /\ ret[p] = "nil"
            /\ calls[p] # <<>> => Resolves(p)
            /\ lib[p] = FirstMatch(t.libraries, Rewritten(p))
            /\ \A i \in CallsOf(p, "Scan") :
                  calls[p][i].args = <<Rewritten(p)>>

\* With the override " K" and PreciseRefresh on, an event under no root of a
\* snapshot that holds libraries has been dropped.
C20_Witness ==
    \E p \in Procs :
        /\ InScan(p) /\ Returned(p)
        /\ t.cfg.Library = <<" ", "K">>
        /\ t.cfg.PreciseRefresh
        /\ t.libraries # <<>>
        /\ ~Resolves(p)
        /\ calls[p] = <<>>

====
